---- MODULE Spec2Model ----
(***************************************************************************)
(* Model of drain3/template_miner.py: the TemplateMiner controller that    *)
(* masks a log line, hands it to the Drain clustering engine and keeps a   *)
(* snapshot of the engine in a persistence store.                          *)
(*                                                                         *)
(* Drain, LogMasker, PersistenceHandler and the profilers live in other    *)
(* files of the package; their definitions here follow their interfaces.   *)
(* The engine is modelled in the configuration drain_depth = 3 (the prefix *)
(* tree has the token-count layer only) and max_clusters = None.           *)
(***************************************************************************)
EXTENDS Integers, Sequences, FiniteSets, TLC

\* ---------------------------------------------------------------- bounds
MaxCalls == 3
MaxInits == 2
MaxTime == 60

\* amounts by which the wall clock is seen to advance, in seconds
TickSteps == {30}
\* time a blocking store write may take, in seconds
SaveDurations == {0, 30}

\* raw log lines fed to the controller (token sequences)
Lines == {<<"a">>, <<"a", "b">>, <<"a", "9">>}

\* ------------------------------------------------------ program constants
SecondsPerMinute == 60
SimThNum == 4
SimThDen == 10

\* ------------------------------------------------------------- variables
VARIABLES
  now,                 \* time.time()
  alive,               \* a constructed TemplateMiner exists
  config,              \* self.config
  persistence_handler, \* self.persistence_handler is not None
  profiler,            \* self.profiler (identity of the instance)
  drain,               \* self.drain
  last_save_time,      \* self.last_save_time
  store,               \* what the persistence store holds: <<>> or <<blob>>
  last_call,           \* history: the last add_log_message call since construction
  init,                \* history: the last construction
  sections,            \* sections started on self.profiler and not ended
  ninits,              \* number of constructions so far
  ncalls               \* number of add_log_message calls so far

vars == <<now, alive, config, persistence_handler, profiler, drain,
          last_save_time, store, last_call, init, sections, ninits, ncalls>>

\* ------------------------------------------------------- python values
\* dictionary keys carry their runtime type
py_key(n) == <<"int", n>>
py_str(k) == <<"str", k[2]>>
py_int(k) == <<"int", k[2]>>
is_int(k) == k[1] = "int"

None == <<>>

\* "{} ({})".format(change_type, cluster_id)
py_format(change_type, cluster_id) ==
  <<change_type, " (", py_str(py_key(cluster_id)), ")">>

\* ---------------------------------------------------------- LogMasker
mask_token(tok) == IF tok = "9" THEN "<NUM>" ELSE tok

mask(log_message) == [i \in DOMAIN log_message |-> mask_token(log_message[i])]

\* -------------------------------------------------------------- Drain
NoCluster == 0

\* Drain(...) as constructed by TemplateMiner.__init__
NewDrain(prof) ==
  [ root_node |-> <<>>,        \* root_node.key_to_child_node: key -> cluster ids
    id_to_cluster |-> <<>>,    \* key -> cluster
    clusters_counter |-> 0,
    profiler |-> <<"live", prof>> ]

RECURSIVE count_equal(_, _, _)
count_equal(seq1, seq2, i) ==
  IF i > Len(seq1) THEN 0
  ELSE (IF seq1[i] # "<*>" /\ seq1[i] = seq2[i] THEN 1 ELSE 0)
       + count_equal(seq1, seq2, i + 1)

RECURSIVE count_params(_, _)
count_params(seq1, i) ==
  IF i > Len(seq1) THEN 0
  ELSE (IF seq1[i] = "<*>" THEN 1 ELSE 0) + count_params(seq1, i + 1)

\* get_seq_distance: <<number of equal tokens, number of wildcards>>
get_seq_distance(seq1, seq2) ==
  <<count_equal(seq1, seq2, 1), count_params(seq1, 1)>>

\* fast_match: best cluster among cluster_ids, or NoCluster
RECURSIVE fast_match_from(_, _, _, _, _)
fast_match_from(d, cluster_ids, tokens, i, best) ==
  IF i > Len(cluster_ids) THEN best
  ELSE
    LET key == py_key(cluster_ids[i]) IN
    IF key \notin DOMAIN d.id_to_cluster
    THEN fast_match_from(d, cluster_ids, tokens, i + 1, best)
    ELSE
      LET dist == get_seq_distance(d.id_to_cluster[key].log_template_tokens, tokens)
          better == \/ dist[1] > best.max_sim
                    \/ dist[1] = best.max_sim /\ dist[2] > best.max_param_count
      IN fast_match_from(d, cluster_ids, tokens, i + 1,
           IF better
           THEN [max_sim |-> dist[1], max_param_count |-> dist[2],
                 max_cluster |-> cluster_ids[i]]
           ELSE best)

fast_match(d, cluster_ids, tokens) ==
  LET best == fast_match_from(d, cluster_ids, tokens, 1,
                [max_sim |-> -1, max_param_count |-> -1, max_cluster |-> NoCluster])
  IN IF best.max_cluster # NoCluster
        /\ best.max_sim * SimThDen >= SimThNum * Len(tokens)
     THEN best.max_cluster
     ELSE NoCluster

tree_search(d, tokens) ==
  LET key == py_key(Len(tokens)) IN
  IF key \notin DOMAIN d.root_node THEN NoCluster
  ELSE fast_match(d, d.root_node[key], tokens)

create_template(seq1, seq2) ==
  [i \in DOMAIN seq1 |-> IF seq1[i] = seq2[i] THEN seq1[i] ELSE "<*>"]

\* dict[key] = value
dict_set(f, key, value) ==
  [k \in DOMAIN f \cup {key} |-> IF k = key THEN value ELSE f[k]]

\* Drain.add_log_message: [drain, cluster_id, change_type]
drain_add_log_message(d, content) ==
  LET match == tree_search(d, content) IN
  IF match = NoCluster
  THEN
    LET id == d.clusters_counter + 1
        lenkey == py_key(Len(content))
        ids == IF lenkey \in DOMAIN d.root_node THEN d.root_node[lenkey] ELSE <<>>
    IN [ drain |-> [d EXCEPT
                      !.clusters_counter = id,
                      !.id_to_cluster = dict_set(@, py_key(id),
                          [cluster_id |-> id, log_template_tokens |-> content, size |-> 1]),
                      !.root_node = dict_set(@, lenkey, Append(ids, id))],
         cluster_id |-> id,
         change_type |-> "cluster_created" ]
  ELSE
    LET old == d.id_to_cluster[py_key(match)]
        new_template_tokens == create_template(content, old.log_template_tokens)
    IN [ drain |-> [d EXCEPT !.id_to_cluster[py_key(match)] =
                      [old EXCEPT !.log_template_tokens = new_template_tokens,
                                  !.size = @ + 1]],
         cluster_id |-> match,
         change_type |-> IF new_template_tokens = old.log_template_tokens
                         THEN "none" ELSE "cluster_template_changed" ]

\* the cluster object returned by the engine, read from the engine's state
cluster_of(d, cluster_id) == d.id_to_cluster[py_key(cluster_id)]

\* len(drain.clusters)
cluster_count(d) == Cardinality(DOMAIN d.id_to_cluster)

\* ------------------------------------------- jsonpickle, zlib, base64
\* json object keys are strings: every dictionary key k is written as str(k)
str_keys(f) ==
  [k \in {py_str(j) : j \in DOMAIN f} |-> f[CHOOSE j \in DOMAIN f : py_str(j) = k]]

\* jsonpickle.dumps(drain): the profiler is pickled by value, like any attribute
jsonpickle_dumps(d) ==
  [d EXCEPT !.root_node = str_keys(@),
            !.id_to_cluster = str_keys(@),
            !.profiler = <<"copy", @[2]>>]

\* a byte string: the encodings applied on top of a json text, innermost first
encode_utf8(json) == [layers |-> <<>>, valid |-> TRUE, json |-> json]

zlib_compress(b) == [b EXCEPT !.layers = Append(@, "zlib")]

b64encode(b) == [b EXCEPT !.layers = Append(@, "base64")]

\* the decoders give bytes with valid = FALSE where the library raises
strip_layer(b, layer) ==
  IF b.valid /\ Len(b.layers) > 0 /\ b.layers[Len(b.layers)] = layer
  THEN [b EXCEPT !.layers = SubSeq(@, 1, Len(@) - 1)]
  ELSE [b EXCEPT !.valid = FALSE]

b64decode(b) == strip_layer(b, "base64")

zlib_decompress(b) == strip_layer(b, "zlib")

\* jsonpickle.loads raises unless the bytes are a json text
jsonpickle_loads_raises(b) == ~b.valid \/ b.layers # <<>>

\* the object jsonpickle.loads builds: keys stay strings, the profiler is a copy
jsonpickle_loads(b) == b.json

\* --------------------------------------------------------- TemplateMiner
\* save_state: the bytes handed to persistence_handler.save_state
save_state(d, snapshot_compress_state) ==
  LET state == encode_utf8(jsonpickle_dumps(d)) IN
  IF snapshot_compress_state THEN b64encode(zlib_compress(state)) ELSE state

\* load_state, lines 63-66: the bytes after the optional decompression
load_state_bytes(state, snapshot_compress_state) ==
  IF snapshot_compress_state THEN zlib_decompress(b64decode(state)) ELSE state

\* d[int(key)] = d.pop(key) for every key of the set done
cast_keys(f, done) ==
  [k \in (DOMAIN f \ done) \cup {py_int(j) : j \in done} |->
     IF k \in DOMAIN f \ done THEN f[k]
     ELSE f[CHOOSE j \in done : py_int(j) = k]]

\* load_state, lines 70-74: the keys are copied to a list first, so every key
\* of root_node.key_to_child_node is visited
cast_root_keys(f) == cast_keys(f, DOMAIN f)

\* load_state, lines 77-79: the loop runs over the live key view of the
\* dictionary it pops from and inserts into. Python leaves the outcome of
\* that open ("may raise a RuntimeError or fail to iterate over all
\* entries"): the loop raises, or ends having visited some of the keys.
\* An empty dictionary is never modified and the loop ends at once.
cast_cluster_keys(f) ==
  IF DOMAIN f = {} THEN {[raised |-> FALSE, dict |-> f]}
  ELSE {[raised |-> TRUE, dict |-> f]}
       \cup {[raised |-> FALSE, dict |-> cast_keys(f, done)] :
               done \in (SUBSET DOMAIN f) \ {{}}}

\* variant: the restored engine keeps the profiler it was pickled with
load_state_keeps_profiler(loaded, self_drain, self_profiler, snapshot_compress_state) ==
  IF loaded = None THEN {[raised |-> FALSE, drain |-> self_drain]}
  ELSE
    LET state == load_state_bytes(loaded[1], snapshot_compress_state) IN
    IF jsonpickle_loads_raises(state) THEN {[raised |-> TRUE, drain |-> self_drain]}
    ELSE
      LET d0 == jsonpickle_loads(state)
          d1 == [d0 EXCEPT !.root_node = cast_root_keys(@)]
      IN { [raised |-> o.raised,
            drain |-> IF o.raised THEN self_drain
                      ELSE [d1 EXCEPT !.id_to_cluster = o.dict]] :
           o \in cast_cluster_keys(d1.id_to_cluster) }

\* variant: unreadable bytes are dropped and the empty engine is kept
load_state_fallback(loaded, self_drain, self_profiler, snapshot_compress_state) ==
  {[raised |-> FALSE, drain |-> self_drain]}

\* variant: a store that holds nothing is an error
load_state_absent_raises(loaded, self_drain, self_profiler, snapshot_compress_state) ==
  {[raised |-> TRUE, drain |-> self_drain]}

\* load_state: the possible outcomes [raised, drain] of the call
load_state(loaded, self_drain, self_profiler, snapshot_compress_state) ==
  IF loaded = None THEN {[raised |-> FALSE, drain |-> self_drain]}
  ELSE
    LET state == load_state_bytes(loaded[1], snapshot_compress_state) IN
    IF jsonpickle_loads_raises(state) THEN {[raised |-> TRUE, drain |-> self_drain]}
    ELSE
      LET d0 == jsonpickle_loads(state)
          d1 == [d0 EXCEPT !.root_node = cast_root_keys(@)]
      IN { [raised |-> o.raised,
            drain |-> IF o.raised THEN self_drain
                      ELSE [d1 EXCEPT !.id_to_cluster = o.dict,
                                      !.profiler = <<"live", self_profiler>>]] :
           o \in cast_cluster_keys(d1.id_to_cluster) }

\* variant: the interval is tested first, so a structural change made
\* shortly after a save is not written
get_snapshot_reason_debounced(change_type, cluster_id, t, last, snapshot_interval_minutes) ==
  IF (t - last) * snapshot_interval_minutes[2]
       < snapshot_interval_minutes[1] * SecondsPerMinute
  THEN None
  ELSE IF change_type # "none" THEN py_format(change_type, cluster_id)
  ELSE <<"periodic">>

\* variant: > in place of >=
get_snapshot_reason_strict(change_type, cluster_id, t, last, snapshot_interval_minutes) ==
  IF change_type # "none" THEN py_format(change_type, cluster_id)
  ELSE IF (t - last) * snapshot_interval_minutes[2]
            > snapshot_interval_minutes[1] * SecondsPerMinute
       THEN <<"periodic">>
       ELSE None

\* get_snapshot_reason, with t the value of time.time() on line 101;
\* snapshot_interval_minutes is the fraction <<numerator, denominator>>
get_snapshot_reason(change_type, cluster_id, t, last, snapshot_interval_minutes) ==
  IF change_type # "none" THEN py_format(change_type, cluster_id)
  ELSE IF (t - last) * snapshot_interval_minutes[2]
            >= snapshot_interval_minutes[1] * SecondsPerMinute
       THEN <<"periodic">>
       ELSE None

\* "if snapshot_reason:"
truthy(snapshot_reason) == snapshot_reason # None

\* variant: the cluster count is read before the engine call
make_result_stale_count(before, after, cluster_id, change_type) ==
  [ change_type |-> change_type,
    cluster_id |-> cluster_of(after, cluster_id).cluster_id,
    cluster_size |-> cluster_of(after, cluster_id).size,
    template_mined |-> cluster_of(after, cluster_id).log_template_tokens,
    cluster_count |-> cluster_count(before) ]

\* add_log_message, lines 117-123: the result dictionary
make_result(before, after, cluster_id, change_type) ==
  [ change_type |-> change_type,
    cluster_id |-> cluster_of(after, cluster_id).cluster_id,
    cluster_size |-> cluster_of(after, cluster_id).size,
    template_mined |-> cluster_of(after, cluster_id).log_template_tokens,
    cluster_count |-> cluster_count(after) ]

\* variant: the timestamp is taken whether or not the save went through
last_save_after_always(saved_ok, last, t_after_save) == t_after_save

\* add_log_message, lines 128-130: self.last_save_time after the persistence step
last_save_after(saved_ok, last, t_after_save) ==
  IF saved_ok THEN t_after_save ELSE last

\* variant: the engine is serialized as it was before the clustering step
drain_at_save_stale(before, after) == before

\* save_state, line 88: self.drain is the engine as line 115 left it
drain_at_save(before, after) == after

\* variant: every call saves
save_state_calls_always(handler, snapshot_reason) == IF handler THEN 1 ELSE 0

\* add_log_message, lines 125-129: how many times save_state is called
save_state_calls(handler, snapshot_reason) ==
  IF handler /\ truthy(snapshot_reason) THEN 1 ELSE 0

\* ------------------------------------------------------------- Profiler
\* a profiler on which nothing is started
NewProfiler == [open |-> <<>>, last_started |-> ""]

\* Profiler.start_section(name)
start_section(p, name) ==
  [ open |-> IF \E i \in DOMAIN p.open : p.open[i] = name
             THEN p.open ELSE Append(p.open, name),
    last_started |-> name ]

\* the section end_section(name) ends: the last one started when no name is given
ended_section(p, name) == IF name = "" THEN p.last_started ELSE name

RECURSIVE without(_, _)
without(seq, name) ==
  IF seq = <<>> THEN <<>>
  ELSE IF seq[1] = name THEN without(Tail(seq), name)
  ELSE <<seq[1]>> \o without(Tail(seq), name)

\* Profiler.end_section(name="")
end_section(p, name) == [p EXCEPT !.open = without(@, ended_section(p, name))]

\* add_log_message, lines 108-133: the calls made on self.profiler, in order;
\* a save that raises leaves the function on line 129
hook_calls(handler, raised) ==
  << <<"start", "total">>, <<"start", "mask">>, <<"end", "">>,
     <<"start", "drain">>, <<"end", "drain">> >>
  \o (IF handler
      THEN << <<"start", "save_state">> >>
           \o (IF raised THEN <<>> ELSE << <<"end", "">> >>)
      ELSE <<>>)
  \o (IF raised THEN <<>> ELSE << <<"end", "total">> >>)

\* the profiler after the calls i.. of the sequence
RECURSIVE run_hook(_, _, _)
run_hook(p, hcalls, i) ==
  IF i > Len(hcalls) THEN p
  ELSE run_hook(IF hcalls[i][1] = "start"
                THEN start_section(p, hcalls[i][2])
                ELSE end_section(p, hcalls[i][2]),
                hcalls, i + 1)

\* the calls i.. open and close sections like brackets inside "total": a
\* section is started when it is not open and, unless it is "total", when
\* "total" is the outermost open one; the section ended is the innermost
RECURSIVE well_nested(_, _, _)
well_nested(p, hcalls, i) ==
  IF i > Len(hcalls) THEN TRUE
  ELSE
    LET name == hcalls[i][2] IN
    IF hcalls[i][1] = "start"
    THEN /\ \A j \in DOMAIN p.open : p.open[j] # name
         /\ name # "total" => (p.open # <<>> /\ p.open[1] = "total")
         /\ well_nested(start_section(p, name), hcalls, i + 1)
    ELSE /\ p.open # <<>>
         /\ p.open[Len(p.open)] = ended_section(p, name)
         /\ well_nested(end_section(p, name), hcalls, i + 1)

\* variant: load_state runs whether or not a handler is given
init_load_always(handler, loaded, self_drain, self_profiler, snapshot_compress_state) ==
  load_state(loaded, self_drain, self_profiler, snapshot_compress_state)

\* __init__, lines 52-53: load_state runs only with a persistence handler
init_load(handler, loaded, self_drain, self_profiler, snapshot_compress_state) ==
  IF handler
  THEN load_state(loaded, self_drain, self_profiler, snapshot_compress_state)
  ELSE {[raised |-> FALSE, drain |-> self_drain]}

\* variant: the clock of the policy starts at zero
init_last_save_time_zero(t) == 0

\* __init__, line 51: self.last_save_time = time.time()
init_last_save_time(t) == t

\* variant: the engine is given the raw line
engine_input_raw(log_message, masked_content) == log_message

\* add_log_message, line 115: the argument of self.drain.add_log_message
engine_input(log_message, masked_content) == masked_content

\* values of config.snapshot_interval_minutes: one minute, and a sixtieth of a
\* minute (one second)
SnapshotIntervalMinutes == {<<1, 1>>, <<1, 60>>}

NoInit == [handler |-> FALSE, compress |-> FALSE, loaded |-> None,
           raised |-> FALSE, t |-> 0]

Init ==
  /\ now = 0
  /\ alive = FALSE
  /\ config = [snapshot_interval_minutes |-> <<1, 1>>, snapshot_compress_state |-> FALSE]
  /\ persistence_handler = FALSE
  /\ profiler = 0
  /\ drain = NewDrain(0)
  /\ last_save_time = 0
  /\ store = None
  /\ last_call = <<>>
  /\ init = NoInit
  /\ sections = NewProfiler
  /\ ninits = 0
  /\ ncalls = 0

\* persistence_handler.load_state(): the stored bytes, or damaged bytes
store_load(damaged) ==
  IF store = None THEN None
  ELSE IF damaged THEN <<[store[1] EXCEPT !.valid = FALSE]>>
  ELSE store

\* TemplateMiner.__init__ in a new process, on the store as it is; the
\* snapshot interval of a deployment stays the same across restarts
Construct(handler, compress, minutes, damaged) ==
  /\ ninits < MaxInits
  /\ ninits > 0 => minutes = config.snapshot_interval_minutes
  /\ damaged => (handler /\ store # None)
  /\ ninits' = ninits + 1
  /\ config' = [snapshot_interval_minutes |-> minutes,
                snapshot_compress_state |-> compress]
  /\ profiler' = ninits + 1
  /\ persistence_handler' = handler
  /\ sections' = NewProfiler
  /\ last_save_time' = init_last_save_time(now)
  /\ \E o \in init_load(handler, IF handler THEN store_load(damaged) ELSE store,
                        NewDrain(profiler'), profiler', compress) :
       /\ drain' = o.drain
       /\ alive' = ~o.raised
       /\ init' = [handler |-> handler, compress |-> compress,
                   loaded |-> IF handler THEN store_load(damaged) ELSE None,
                   raised |-> o.raised, t |-> now]
  /\ last_call' = <<>>
  /\ UNCHANGED <<now, store, ncalls>>

\* TemplateMiner.add_log_message; save_ok and dur are the store's doing:
\* whether persistence_handler.save_state succeeds and how long it blocks
AddLogMessage(log_message, save_ok, dur) ==
  /\ alive
  /\ ncalls < MaxCalls
  /\ now + dur <= MaxTime
  /\ LET masked_content == mask(log_message)
         r == drain_add_log_message(drain, engine_input(log_message, masked_content))
         result == make_result(drain, r.drain, r.cluster_id, r.change_type)
         snapshot_reason ==
           IF persistence_handler
           THEN get_snapshot_reason(r.change_type, r.cluster_id, now,
                                    last_save_time, config.snapshot_interval_minutes)
           ELSE None
         nsave == save_state_calls(persistence_handler, snapshot_reason)
         saved_ok == nsave > 0 /\ save_ok
         raised == nsave > 0 /\ ~save_ok
         hcalls == hook_calls(persistence_handler, raised)
     IN
       /\ sections' = run_hook(sections, hcalls, 1)
       /\ (nsave = 0) => (save_ok /\ dur = 0)
       /\ drain' = r.drain
       /\ store' = IF saved_ok
                   THEN <<save_state(drain_at_save(drain, r.drain),
                                     config.snapshot_compress_state)>>
                   ELSE store
       /\ now' = now + dur
       /\ last_save_time' = last_save_after(saved_ok, last_save_time, now')
       /\ last_call' = <<
            [ k |-> IF last_call = <<>> THEN 1 ELSE last_call[1].k + 1,
              same_line |-> \/ last_call = <<>>
                            \/ /\ last_call[1].same_line
                               /\ last_call[1].log_message = log_message,
              first_cluster_id |-> IF last_call = <<>> THEN r.cluster_id
                                   ELSE last_call[1].first_cluster_id,
              log_message |-> log_message,
              masked_content |-> masked_content,
              change_type |-> r.change_type,
              cluster_id |-> r.cluster_id,
              policy_evaluated |-> persistence_handler,
              snapshot_reason |-> snapshot_reason,
              save_state_calls |-> nsave,
              t |-> now,
              last_save_before |-> last_save_time,
              store_before |-> store,
              raised |-> raised,
              nested |-> well_nested(sections, hcalls, 1),
              unsaved_failure |-> /\ ~saved_ok
                                  /\ \/ raised
                                     \/ last_call # <<>> /\ last_call[1].unsaved_failure,
              result |-> IF raised THEN None ELSE <<result>> ] >>
  /\ ncalls' = ncalls + 1
  /\ UNCHANGED <<alive, config, persistence_handler, profiler, init, ninits>>

\* the wall clock advances
Tick(d) ==
  /\ now + d <= MaxTime
  /\ now' = now + d
  /\ UNCHANGED <<alive, config, persistence_handler, profiler, drain,
                 last_save_time, store, last_call, init, sections, ninits, ncalls>>

Next ==
  \/ \E handler \in BOOLEAN, compress \in BOOLEAN,
        minutes \in SnapshotIntervalMinutes, damaged \in BOOLEAN :
       Construct(handler, compress, minutes, damaged)
  \/ \E log_message \in Lines, save_ok \in BOOLEAN, dur \in SaveDurations :
       AddLogMessage(log_message, save_ok, dur)
  \/ \E d \in TickSteps : Tick(d)

Spec == Init /\ [][Next]_vars

\* ------------------------------------------------------------ properties
Called == last_call # <<>>

Call == last_call[1]

\* seconds between the last save and the time read by the policy, in the call
Elapsed == Call.t - Call.last_save_before

\* Elapsed >= the configured interval, in seconds
IntervalPassed ==
  Elapsed * config.snapshot_interval_minutes[2]
    >= config.snapshot_interval_minutes[1] * 60

\* the last construction found a snapshot written with the compression
\* setting it was constructed with
Restored ==
  /\ ninits > 0
  /\ init.handler
  /\ init.loaded # None
  /\ init.loaded[1].valid
  /\ init.loaded[1].layers = (IF init.compress THEN <<"zlib", "base64">> ELSE <<>>)

\* C1: with a persistence handler, a call whose change_type is not "none"
\* calls save_state exactly once, whatever the time since the last save, and
\* the reason is "<change_type> (<cluster_id>)" of that call.
C1_StructuralChangeSavesOnce ==
  (Called /\ persistence_handler /\ Call.change_type # "none") =>
    /\ Call.save_state_calls = 1
    /\ Call.snapshot_reason =
         <<Call.change_type, " (", <<"str", Call.cluster_id>>, ")">>

C1_Witness ==
  /\ Called /\ persistence_handler
  /\ Call.change_type = "cluster_template_changed"
  /\ Elapsed = 0
  /\ ~IntervalPassed
  /\ Call.save_state_calls = 1

\* C2: with a persistence handler and change_type "none", a call made before
\* the interval has passed since the last save attempts no snapshot, and a
\* call made once it has passed attempts exactly one, with reason "periodic".
C2_DebouncedSnapshot ==
  (Called /\ persistence_handler /\ Call.change_type = "none") =>
    IF IntervalPassed
    THEN Call.save_state_calls = 1 /\ Call.snapshot_reason = <<"periodic">>
    ELSE Call.save_state_calls = 0 /\ Call.snapshot_reason = None

C2_Witness ==
  /\ Called /\ persistence_handler
  /\ Call.change_type = "none"
  /\ config.snapshot_interval_minutes = <<1, 1>>
  /\ Elapsed = 60
  /\ Call.save_state_calls = 1

\* C3: when a call with a persistence handler returns a result whose
\* change_type is not "none", the store holds, at the return, the
\* serialization of the engine as the clustering step left it, with the
\* cluster of the result in it.
C3_StructuralChangeDurable ==
  [][ ( /\ ncalls' = ncalls + 1
        /\ persistence_handler
        /\ last_call'[1].change_type # "none"
        /\ ~last_call'[1].raised )
      => /\ store' # None
         /\ store'[1].valid
         /\ store'[1].json = jsonpickle_dumps(drain')
         /\ LET key == <<"str", last_call'[1].cluster_id>>
                saved == store'[1].json.id_to_cluster
            IN /\ key \in DOMAIN saved
               /\ saved[key].log_template_tokens = last_call'[1].result[1].template_mined
               /\ saved[key].size = last_call'[1].result[1].cluster_size ]_vars

C3_Witness ==
  /\ Called /\ persistence_handler
  /\ Call.change_type = "cluster_template_changed"
  /\ ~Call.raised
  /\ store # None
  /\ store # Call.store_before
  /\ store[1].json = jsonpickle_dumps(drain)

\* C4: a controller constructed on a store that holds a snapshot, with the
\* compression setting the snapshot was written with, has an engine with the
\* cluster count, and per cluster the size and template, of the saved engine.
C4_RoundTrip ==
  (Restored /\ ~Called) =>
    /\ alive
    /\ LET saved == init.loaded[1].json.id_to_cluster
           live == drain.id_to_cluster
       IN /\ Cardinality(DOMAIN live) = Cardinality(DOMAIN saved)
          /\ \A k \in DOMAIN saved : \E j \in DOMAIN live :
               /\ live[j].cluster_id = saved[k].cluster_id
               /\ live[j].size = saved[k].size
               /\ live[j].log_template_tokens = saved[k].log_template_tokens

\* C5: whenever load_state finds a snapshot it completes, and then every key
\* of root_node.key_to_child_node and of id_to_cluster is an integer, each
\* value sits under the integer parse of its former key and no entry is lost
\* or duplicated, for mappings of any size.
C5_KeysAreIntegers ==
  (Restored /\ ~Called) =>
    /\ alive
    /\ \A k \in DOMAIN drain.root_node : is_int(k)
    /\ \A k \in DOMAIN drain.id_to_cluster : is_int(k)
    /\ LET saved == init.loaded[1].json IN
       /\ \A k \in DOMAIN saved.id_to_cluster :
            /\ py_int(k) \in DOMAIN drain.id_to_cluster
            /\ drain.id_to_cluster[py_int(k)] = saved.id_to_cluster[k]
       /\ \A k \in DOMAIN saved.root_node :
            /\ py_int(k) \in DOMAIN drain.root_node
            /\ drain.root_node[py_int(k)] = saved.root_node[k]
       /\ Cardinality(DOMAIN drain.id_to_cluster)
            = Cardinality(DOMAIN saved.id_to_cluster)
       /\ Cardinality(DOMAIN drain.root_node) = Cardinality(DOMAIN saved.root_node)

\* C6: a construction whose store returns bytes that fail base64 decoding,
\* decompression or deserialization fails: no controller results (neither
\* with an empty nor with a partly restored engine), and the store is not
\* written.
C6_CorruptStoreFails ==
  [][ ( /\ ninits' = ninits + 1
        /\ init'.handler
        /\ init'.loaded # None
        /\ \/ ~init'.loaded[1].valid
           \/ init'.loaded[1].layers #
                (IF init'.compress THEN <<"zlib", "base64">> ELSE <<>>) )
      => /\ ~alive'
         /\ init'.raised
         /\ store' = store ]_vars

C6_Witness ==
  /\ ninits > 0
  /\ init.handler
  /\ init.loaded # None
  /\ ~init.loaded[1].valid
  /\ init.raised
  /\ ~alive

\* C7: a construction whose store holds nothing succeeds, the engine is the
\* freshly constructed empty one (cluster count 0), the store is not written,
\* and the controller is in the state of one constructed without a restore,
\* so that its calls behave alike.
C7_EmptyStoreStartup ==
  (ninits > 0 /\ init.handler /\ init.loaded = None /\ ~Called) =>
    /\ alive
    /\ ~init.raised
    /\ cluster_count(drain) = 0
    /\ drain = [root_node |-> <<>>, id_to_cluster |-> <<>>,
                clusters_counter |-> 0, profiler |-> <<"live", profiler>>]
    /\ last_save_time = init.t
    /\ store = None

C7_Witness ==
  /\ ninits > 1
  /\ init.handler
  /\ init.loaded = None
  /\ alive
  /\ ~Called
  /\ cluster_count(drain) = 0

\* C8: when the store's save fails in a call, the call ends with the error
\* and no result, save_state ran at most once, nothing was written, and
\* last_save_time has the value it had before the call.
C8_SaveFailurePropagates ==
  [][ (ncalls' = ncalls + 1 /\ last_call'[1].raised)
      => /\ last_call'[1].result = None
         /\ last_call'[1].save_state_calls <= 1
         /\ last_save_time' = last_save_time
         /\ store' = store ]_vars

C8_Witness ==
  /\ Called
  /\ Call.raised
  /\ Call.save_state_calls = 1
  /\ Call.result = None
  /\ Call.t > Call.last_save_before
  /\ last_save_time = Call.last_save_before
  /\ store = Call.store_before

\* C9: on a fresh controller with a store, fed the same line every time,
\* call 1 creates a cluster of size 1 and saves with reason
\* "cluster_created (<id>)"; call k > 1 reports "none", the same cluster and
\* size k, and saves, with reason "periodic", exactly when the interval has
\* passed since the last save.
C9_SameLineScenario ==
  (Called /\ init.handler /\ init.loaded = None /\ Call.same_line) =>
    /\ cluster_of(drain, Call.cluster_id).size = Call.k
    /\ ~Call.raised => Call.result[1].cluster_size = Call.k
    /\ Call.k = 1 =>
         /\ Call.change_type = "cluster_created"
         /\ Call.save_state_calls = 1
         /\ Call.snapshot_reason =
              <<"cluster_created", " (", <<"str", Call.cluster_id>>, ")">>
    /\ Call.k > 1 =>
         /\ Call.change_type = "none"
         /\ Call.cluster_id = Call.first_cluster_id
         /\ IF IntervalPassed
            THEN Call.save_state_calls = 1 /\ Call.snapshot_reason = <<"periodic">>
            ELSE Call.save_state_calls = 0 /\ store = Call.store_before

C9_Witness ==
  /\ Called /\ init.handler /\ init.loaded = None /\ Call.same_line
  /\ config.snapshot_interval_minutes = <<1, 60>>
  /\ Call.k = 3
  /\ Elapsed >= 1
  /\ Call.last_save_before > init.t
  /\ Call.save_state_calls = 1
  /\ ~Call.raised
  /\ Call.result[1].cluster_size = 3

\* C10: the result of a call carries the change_type and the cluster the
\* engine returned, the size and template of that cluster after the message,
\* and the engine's cluster count after the message, whether or not the call
\* wrote a snapshot.
C10_ResultRecord ==
  (Called /\ ~Call.raised) =>
    LET result == Call.result[1]
        key == <<"int", Call.cluster_id>>
    IN /\ result.change_type = Call.change_type
       /\ result.cluster_id = Call.cluster_id
       /\ key \in DOMAIN drain.id_to_cluster
       /\ result.cluster_size = drain.id_to_cluster[key].size
       /\ result.template_mined = drain.id_to_cluster[key].log_template_tokens
       /\ result.cluster_count = Cardinality(DOMAIN drain.id_to_cluster)

C10_Witness ==
  /\ Called /\ ~Call.raised
  /\ Call.result[1].change_type = "cluster_created"
  /\ Call.result[1].cluster_count = 2
  /\ Call.save_state_calls = 1
  /\ store # Call.store_before

\* the stored snapshot st holds the engine d, message counts included
Reflected(st, d) ==
  /\ st # None
  /\ st[1].json.id_to_cluster = str_keys(d.id_to_cluster)
  /\ st[1].json.root_node = str_keys(d.root_node)
  /\ st[1].json.clusters_counter = d.clusters_counter

\* the stored snapshot st holds the engine d but for the message counts
ReflectedButSizes(st, d) ==
  /\ st # None
  /\ DOMAIN st[1].json.id_to_cluster = DOMAIN str_keys(d.id_to_cluster)
  /\ \A k \in DOMAIN d.id_to_cluster :
       /\ st[1].json.id_to_cluster[<<"str", k[2]>>].cluster_id
            = d.id_to_cluster[k].cluster_id
       /\ st[1].json.id_to_cluster[<<"str", k[2]>>].log_template_tokens
            = d.id_to_cluster[k].log_template_tokens
  /\ st[1].json.root_node = str_keys(d.root_node)
  /\ st[1].json.clusters_counter = d.clusters_counter

\* C11: last_save_time changes only by a successful save: a call without a
\* reason, without a store or with a failing save leaves it, construction
\* leaves it at the construction time whatever load_state does, a successful
\* save sets it to a time not before the time the policy used, and it never
\* decreases.
C11_LastSaveTimeFrame ==
  [][ /\ last_save_time' >= last_save_time
      /\ (ninits' = ninits + 1) => last_save_time' = now
      /\ (ninits' = ninits /\ last_save_time' # last_save_time) =>
           /\ ncalls' = ncalls + 1
           /\ persistence_handler
           /\ last_call'[1].save_state_calls = 1
           /\ ~last_call'[1].raised
           /\ store' # None
           /\ last_save_time' >= last_call'[1].t
           /\ last_save_time' = now' ]_vars

C11_Witness ==
  /\ Called
  /\ ~Call.raised
  /\ Call.save_state_calls = 1
  /\ last_save_time > Call.t
  /\ Call.t > Call.last_save_before

\* C12: without a persistence handler construction does not run load_state
\* (the engine is the empty one whatever the store holds), and no call
\* evaluates the policy, saves or touches the store or last_save_time,
\* whatever its change_type and the time passed; the line is still masked,
\* clustered and answered.
C12_NoHandlerNoStore ==
  [][ /\ (ninits' = ninits + 1 /\ ~persistence_handler') =>
           /\ alive'
           /\ ~init'.raised
           /\ drain' = [root_node |-> <<>>, id_to_cluster |-> <<>>,
                        clusters_counter |-> 0, profiler |-> <<"live", profiler'>>]
           /\ store' = store
      /\ (ncalls' = ncalls + 1 /\ ~persistence_handler) =>
           /\ ~last_call'[1].policy_evaluated
           /\ last_call'[1].snapshot_reason = None
           /\ last_call'[1].save_state_calls = 0
           /\ store' = store
           /\ last_save_time' = last_save_time
           /\ ~last_call'[1].raised
           /\ last_call'[1].result # None
           /\ last_call'[1].result[1].template_mined =
                drain'.id_to_cluster[<<"int", last_call'[1].cluster_id>>].log_template_tokens
           /\ drain' # drain ]_vars

C12_Witness ==
  /\ alive
  /\ ~persistence_handler
  /\ store # None
  /\ Called
  /\ Call.k = 1
  /\ Call.change_type = "cluster_created"
  /\ Call.t - Call.last_save_before >= 60
  /\ Call.save_state_calls = 0
  /\ Call.result # None

\* C13: in a call the engine is given the masker's output for the raw line,
\* the engine's state after the call is what that one engine call left, at
\* most one save is made, and a save writes the serialization of exactly
\* that state.
C13_PipelineOrder ==
  [][ (ncalls' = ncalls + 1) =>
        LET c == last_call'[1] IN
        /\ c.masked_content =
             [i \in DOMAIN c.log_message |->
                IF c.log_message[i] = "9" THEN "<NUM>" ELSE c.log_message[i]]
        /\ drain' = drain_add_log_message(drain, c.masked_content).drain
        /\ c.save_state_calls <= 1
        /\ store' # store =>
             /\ c.save_state_calls = 1
             /\ store'[1].json = jsonpickle_dumps(drain') ]_vars

C13_Witness ==
  /\ Called
  /\ Call.log_message = <<"a", "9">>
  /\ Call.masked_content = <<"a", "<NUM>">>
  /\ ~Call.raised
  /\ Call.result[1].template_mined = <<"a", "<NUM>">>
  /\ Call.save_state_calls = 1
  /\ store # Call.store_before

\* C14: the engine's profiler is the controller's own profiler at every
\* point of the controller's life, also after a snapshot was restored.
C14_ProfilerIsLive ==
  alive => drain.profiler = <<"live", profiler>>

C14_Witness ==
  /\ Restored
  /\ alive
  /\ profiler = 2
  /\ init.loaded[1].json.profiler = <<"copy", 1>>
  /\ cluster_count(drain) > 0
  /\ drain.profiler = <<"live", 2>>

\* C15: after every call, whether it returned or ended with a save failure,
\* no section is left open, and the sections of the call were opened and
\* closed properly nested inside "total".
C15_SectionsBalanced ==
  Called => (sections.open = <<>> /\ Call.nested)

\* C16 as claimed: whenever a call on a controller with a store returns, also
\* after earlier save failures, the cluster and template of the result are
\* in the stored snapshot, which differs from the engine in message counts
\* only.
C16_SnapshotNeverLags ==
  (Called /\ persistence_handler /\ ~Call.raised) =>
    ReflectedButSizes(store, drain)

\* C16: whenever a call on a controller with a store returns and no call
\* since the controller's last successful save (or since its construction)
\* ended with a save failure, the cluster and template of the result are in
\* the stored snapshot, which differs from the engine in message counts only
\* and has the engine's id counter.
C16_SnapshotLagsOnlyAfterFailure ==
  (Called /\ persistence_handler /\ ~Call.raised /\ ~Call.unsaved_failure) =>
    /\ ReflectedButSizes(store, drain)
    /\ LET key == <<"str", Call.cluster_id>> IN
       /\ key \in DOMAIN store[1].json.id_to_cluster
       /\ store[1].json.id_to_cluster[key].log_template_tokens
            = Call.result[1].template_mined

C16_Witness ==
  /\ Called /\ persistence_handler /\ ~Call.raised /\ ~Call.unsaved_failure
  /\ Call.k = 3
  /\ Call.change_type = "none"
  /\ Call.save_state_calls = 0
  /\ cluster_count(drain) = 2
  /\ ~Reflected(store, drain)
  /\ ReflectedButSizes(store, drain)

\* C17: a call with a store that returns leaves its message out of the
\* stored snapshot only if it was processed less than the interval after
\* last_save_time; and the store is written in calls only.
C17_BoundedLossWindow ==
  [][ /\ ( /\ ncalls' = ncalls + 1
           /\ persistence_handler
           /\ ~last_call'[1].raised
           /\ ~Reflected(store', drain') )
         => /\ (last_call'[1].t - last_save_time) * config.snapshot_interval_minutes[2]
                 < config.snapshot_interval_minutes[1] * 60
            /\ last_save_time' = last_save_time
      /\ (ncalls' = ncalls) => store' = store ]_vars

C17_Witness ==
  /\ Called /\ persistence_handler /\ ~Call.raised
  /\ config.snapshot_interval_minutes = <<1, 1>>
  /\ ~Reflected(store, drain)
  /\ Elapsed = 30
  /\ Call.k = 2

\* C18: last_save_time is the construction time on a fresh and on a restored
\* controller alike, so the first call of a controller, when its change_type
\* is "none", writes nothing before a full interval has passed since the
\* construction.
C18_DebounceRestartsAtConstruction ==
  /\ (ninits > 0 /\ ~Called) => last_save_time = init.t
  /\ (Called /\ Call.k = 1) => Call.last_save_before = init.t
  /\ ( /\ Called /\ persistence_handler
       /\ Call.k = 1
       /\ Call.change_type = "none"
       /\ (Call.t - init.t) * config.snapshot_interval_minutes[2]
            < config.snapshot_interval_minutes[1] * 60 )
     => /\ Call.save_state_calls = 0
        /\ store = Call.store_before

C18_Witness ==
  /\ Restored /\ alive /\ Called /\ persistence_handler
  /\ config.snapshot_interval_minutes = <<1, 1>>
  /\ init.t = 60
  /\ Call.k = 1
  /\ Call.change_type = "none"
  /\ Call.save_state_calls = 0

====
